---------------------------- MODULE Spec2Model ----------------------------
(***************************************************************************)
(* Model of the data core of src/app.py (dashboard-municipios): the Entity *)
(* Filter, the Reshaper (melt_years) and the Ranker (ranking_fig).         *)
(*                                                                         *)
(* Conventions                                                             *)
(*  - An optional argument (Python None) is an Option: None == << >>,      *)
(*    Some(x) == <<x>>.                                                    *)
(*  - A cell of a data frame is a tagged record [t, v]: a number           *)
(*    Num(n), a float with a fractional part Flt(n, f), a string Str(s)    *)
(*    (s a sequence of one-character tokens) or NaN.                       *)
(*  - The headers "Codigo IBGE" and "Nome_Municipio" stand for the        *)
(*    accented headers of the workbook.                                    *)
(*  - The token "a'" stands for the letter a-acute, "A'" for its capital.  *)
(***************************************************************************)
EXTENDS Integers, Sequences, FiniteSets, TLC

VARIABLES
    df_long,   \* the long dataset handed to ranking_fig
    fig,       \* what the last ranking_fig call returned
    sheet,     \* a wide sheet as read from the workbook
    kept,      \* what the last Entity Filter call returned
    melted,    \* what the last melt_years call returned
    call,      \* the last call of format_value, wide_to_kv or get_value
    loaded,    \* the process-wide datasets built by the one-time load
    ui,        \* the values of the municipality and year dropdowns
    inflight,  \* the requests the server's handlers are working on
    rendered   \* what the last callback returned

\* the state of the dashboard: the load, the page and the callbacks
dash == <<call, loaded, ui, inflight, rendered>>

vars == <<df_long, fig, sheet, kept, melted, call, loaded, ui, inflight, rendered>>

---------------------------------------------------------------------------
(* Bounds of the model *)
MaxRows == 3
MaxTopN == 2
MaxSheetRows == 2

(* Program constants *)
MUNICIPAL_IBGE_MIN == 1500000
MUNICIPAL_IBGE_MAX == 1600000
YEAR_OFFSET == 2

---------------------------------------------------------------------------
(* Values *)
None == << >>
Some(x) == <<x>>

NaN == [t |-> "nan", v |-> 0]
Num(n) == [t |-> "num", v |-> n]
Flt(n, f) == [t |-> "flt", v |-> <<n, f>>]   \* the float n.f, n >= 0, f in 1..9
Str(s) == [t |-> "str", v |-> s]
IsNa(c) == c.t = "nan"

Min(a, b) == IF a <= b THEN a ELSE b

display_year(ano_real) == ano_real + YEAR_OFFSET

---------------------------------------------------------------------------
(* ranking_fig *)

\* df_long[df_long["Ano"] == ano]
FilterYear(rows, ano) ==
    LET Keep(r) == Some(r.Ano) = ano IN SelectSeq(rows, Keep)

\* dfy.dropna(subset=[value_col])
DropNa(rows) ==
    LET Keep(r) == ~IsNa(r.val) IN SelectSeq(rows, Keep)

NaRows(rows) ==
    LET Keep(r) == IsNa(r.val) IN SelectSeq(rows, Keep)

Perms(n) == {p \in [1..n -> 1..n] : \A i, j \in 1..n : i # j => p[i] # p[j]}

InOrder(rows, p, ascending) ==
    \A i \in 1..(Len(rows) - 1) :
        IF ascending THEN rows[p[i]].val.v <= rows[p[i + 1]].val.v
        ELSE rows[p[i]].val.v >= rows[p[i + 1]].val.v

\* mutant: the sorted frame is discarded
SortValues_Discarded(rows, ascending) == {rows}

\* DataFrame.sort_values(value_col, ascending=...) with the default
\* kind="quicksort": the values come out ordered, rows with an absent value
\* last, and the order of rows with equal values is whatever the sort
\* leaves (the default sort is not stable), hence a set of outcomes.
SortValues(rows, ascending) ==
    LET d == DropNa(rows)
    IN  {[i \in 1..Len(d) |-> d[p[i]]] \o NaRows(rows) :
            p \in {q \in Perms(Len(d)) : InOrder(d, q, ascending)}}

\* mutant: the cut is lost
HeadRows_NoCut(rows, top_n) == rows

\* dfy.head(top_n)
HeadRows(rows, top_n) == SubSeq(rows, 1, Min(top_n, Len(rows)))

\* dfy[dfy["Municipio"] == municipio]
SelRows(rows, municipio) ==
    LET Keep(r) == Some(r.Municipio) = municipio IN SelectSeq(rows, Keep)

\* municipio in top["Municipio"].values
InTop(top, municipio) == \E i \in 1..Len(top) : Some(top[i].Municipio) = municipio

\* mutant: the selected entity is not appended
WithSelected_NoAppend(top, sel, municipio) == top

\* if not sel.empty and municipio not in top: top = concat([top, sel.iloc[[0]]])
WithSelected(top, sel, municipio) ==
    IF sel # << >> /\ ~InTop(top, municipio) THEN Append(top, sel[1]) ELSE top

\* mutant: the tag compares with the wrong column
Tag_AllOutros(top, municipio) ==
    [i \in 1..Len(top) |->
        [Municipio |-> top[i].Municipio, Ano |-> top[i].Ano, val |-> top[i].val,
         sel |-> "Outros"]]

\* top["_sel"] = np.where(top["Municipio"] == municipio, "Selecionado", "Outros")
Tag(top, municipio) ==
    [i \in 1..Len(top) |->
        [Municipio |-> top[i].Municipio, Ano |-> top[i].Ano, val |-> top[i].val,
         sel |-> IF Some(top[i].Municipio) = municipio THEN "Selecionado" ELSE "Outros"]]

\* mutant: "and" for "or"
Unset_Both(ano, municipio) == ano = None /\ municipio = None

\* ano is None or municipio is None
Unset(ano, municipio) == ano = None \/ municipio = None

Result(kind, rows, ano, municipio, top_n, height, title) ==
    [kind |-> kind, rows |-> rows, ano |-> ano, municipio |-> municipio,
     top_n |-> top_n, height |-> height, title |-> title]

\* The figures ranking_fig can return for these arguments (one per outcome
\* of the two sorts).  A frame without the "Municipio" column raises
\* KeyError at the selection; int(None) in display_year raises TypeError.
ranking_fig(df, ano, municipio, top_n) ==
    IF Unset(ano, municipio)
    THEN {Result("placeholder", << >>, ano, municipio, top_n, 420, None)}
    ELSE IF ~df.hasMunicipio
    THEN {Result("KeyError", << >>, ano, municipio, top_n, 0, None)}
    ELSE IF ano = None
    THEN {Result("TypeError", << >>, ano, municipio, top_n, 0, None)}
    ELSE {Result("bar", top, ano, municipio, top_n, 520, Some(display_year(ano[1]))) :
            top \in UNION {
                SortValues(
                    Tag(WithSelected(HeadRows(dfy, top_n),
                                     SelRows(dfy, municipio), municipio),
                        municipio),
                    TRUE) :
                dfy \in SortValues(DropNa(FilterYear(df.rows, ano)), FALSE)}}

---------------------------------------------------------------------------
(* Inputs of the ranking specification *)
Names == {Str(<<"A">>), Str(<<"B">>), Str(<<"C">>)}
Years == {2021, 2022}
Values == {Num(50), Num(100), NaN}

\* the values an entity takes: "B" is the one that reaches 200
ValuesOf(n) == IF n = Str(<<"B">>) THEN {Num(100), Num(200), NaN} ELSE Values

LongRecords ==
    {r \in [Municipio : Names, Ano : {2021}, val : Values \cup {Num(200)}] :
        r.val \in ValuesOf(r.Municipio)}
    \cup {[Municipio |-> Str(<<"A">>), Ano |-> 2022, val |-> Num(100)]}

\* what melt_years yields for a sheet that has no name column
NamelessRecords == {[Municipio |-> NaN, Ano |-> 2021, val |-> x] : x \in Values}

NoFig == Result("none", << >>, None, None, 0, 0, None)
NoSheet == [columns |-> << >>, rows |-> << >>]
NoFrame == [kind |-> "none", columns |-> << >>, rows |-> << >>]
NoCall == [fn |-> "none", out |-> NoFrame]

\* before the load, with no page open and no request made
NoPure == [fn |-> "none"]
NoLoad == [state |-> "none"]
NoUi == [municipio |-> None]
NoRender ==
    [cb |-> "none", municipio |-> None, ano |-> None,
     out |-> [kind |-> "none", cards |-> << >>, figs |-> << >>]]
DashIdle ==
    /\ call = NoPure
    /\ loaded = NoLoad
    /\ ui = NoUi
    /\ inflight = {}
    /\ rendered = NoRender

InitRank ==
    /\ \E k \in 0..MaxRows :
          \/ \E r \in [1..k -> LongRecords] :
                df_long = [hasMunicipio |-> TRUE, rows |-> r]
          \/ \E r \in [1..k -> NamelessRecords] :
                df_long = [hasMunicipio |-> FALSE, rows |-> r]
    /\ fig = NoFig
    /\ sheet = NoSheet
    /\ kept = NoCall
    /\ melted = NoCall
    /\ DashIdle

\* one call of ranking_fig on the loaded dataset
CallRankingFig ==
    /\ fig = NoFig
    /\ \E ano \in {Some(y) : y \in Years} \cup {None},
          municipio \in {Some(n) : n \in Names} \cup {None},
          top_n \in 0..MaxTopN :
            fig' \in ranking_fig(df_long, ano, municipio, top_n)
    /\ UNCHANGED <<df_long, sheet, kept, melted, dash>>

NextRank == CallRankingFig

SpecRank == InitRank /\ [][NextRank]_vars

---------------------------------------------------------------------------
(* Vocabulary of the ranking claims, stated on the input df_long and the  *)
(* output fig, independently of the operators above                       *)

Called == fig.kind # "none"
IsBar == fig.kind = "bar"

\* indices of the records of the queried year that carry a value
Defined(df, ano) ==
    {i \in 1..Len(df.rows) : Some(df.rows[i].Ano) = ano /\ ~IsNa(df.rows[i].val)}

\* indices of the records of the selected entity for the queried year
Present(df, ano, municipio) ==
    {i \in 1..Len(df.rows) :
        /\ df.hasMunicipio
        /\ Some(df.rows[i].Ano) = ano
        /\ Some(df.rows[i].Municipio) = municipio}

SelDefined(df, ano, municipio) == Present(df, ano, municipio) \cap Defined(df, ano)

SelectedRows == {j \in 1..Len(fig.rows) : Some(fig.rows[j].Municipio) = fig.municipio}
TaggedRows == {j \in 1..Len(fig.rows) : fig.rows[j].sel = "Selecionado"}

\* the best value the selected entity has in the queried year
BestOfSelected(df, ano, municipio) ==
    LET S == SelDefined(df, ano, municipio)
    IN  (CHOOSE i \in S : \A k \in S : df.rows[k].val.v <= df.rows[i].val.v)

\* records valued strictly above the selected entity's best record
StrictlyAbove(df, ano, municipio) ==
    LET b == df.rows[BestOfSelected(df, ano, municipio)].val.v
    IN  {i \in Defined(df, ano) : df.rows[i].val.v > b}

\* records valued at least as high as the selected entity's best record
NotBelow(df, ano, municipio) ==
    LET b == df.rows[BestOfSelected(df, ano, municipio)].val.v
    IN  {i \in Defined(df, ano) : df.rows[i].val.v >= b}

\* (entity, year) is a key of the dataset
UniqueKeys(df) ==
    \A i, j \in 1..Len(df.rows) :
        (df.rows[i].Municipio = df.rows[j].Municipio /\ df.rows[i].Ano = df.rows[j].Ano)
            => i = j

Untagged(r) == [Municipio |-> r.Municipio, Ano |-> r.Ano, val |-> r.val]

\* the output is a cut of the highest-valued records of the year: its
\* rows are records of the year, as often as the dataset holds them at
\* most, and every record left out is valued no higher than any row kept
NaturalTop(df, ano) ==
    LET In(r) == {i \in Defined(df, ano) : df.rows[i] = r}
        Out(r) == {j \in 1..Len(fig.rows) : Untagged(fig.rows[j]) = r}
    IN  /\ \A j \in 1..Len(fig.rows) : In(Untagged(fig.rows[j])) # {}
        /\ \A i \in Defined(df, ano) :
              LET r == df.rows[i]
              IN  /\ Cardinality(Out(r)) <= Cardinality(In(r))
                  /\ Cardinality(Out(r)) < Cardinality(In(r))
                        => \A j \in 1..Len(fig.rows) : r.val.v <= fig.rows[j].val.v

\* C1: whenever the selected entity has a record with a value for the
\* queried year, the ranking is built and holds a row of that entity,
\* whatever its rank.
C1_SelectedIncluded ==
    (Called /\ fig.ano # None /\ fig.municipio # None
        /\ SelDefined(df_long, fig.ano, fig.municipio) # {})
    => (IsBar /\ SelectedRows # {})

\* the scenario A: 100, B: 200, C: 50 with top_n = 2 and C selected: C
\* ranks below the cut, is appended, and comes first in the display
C1_Witness ==
    /\ IsBar
    /\ fig.top_n = 2
    /\ fig.municipio = Some(Str(<<"C">>))
    /\ df_long.rows =
          <<[Municipio |-> Str(<<"A">>), Ano |-> 2021, val |-> Num(100)],
            [Municipio |-> Str(<<"B">>), Ano |-> 2021, val |-> Num(200)],
            [Municipio |-> Str(<<"C">>), Ano |-> 2021, val |-> Num(50)]>>
    /\ Len(fig.rows) = 3
    /\ fig.rows[1].Municipio = Str(<<"C">>) /\ fig.rows[1].sel = "Selecionado"
    /\ fig.rows[2].Municipio = Str(<<"A">>) /\ fig.rows[2].sel = "Outros"
    /\ fig.rows[3].Municipio = Str(<<"B">>) /\ fig.rows[3].sel = "Outros"

\* C2 as stated: with a value for the selected entity, top_n rows when it
\* is among the top_n highest-valued records, top_n + 1 rows otherwise.
C2_SizeAsStated ==
    (IsBar /\ SelDefined(df_long, fig.ano, fig.municipio) # {})
    => /\ Cardinality(NotBelow(df_long, fig.ano, fig.municipio)) <= fig.top_n
            => Len(fig.rows) = fig.top_n
       /\ Cardinality(StrictlyAbove(df_long, fig.ano, fig.municipio)) >= fig.top_n
            => Len(fig.rows) = fig.top_n + 1

\* C2 amended: min(top_n, n) rows, n the number of valued records of the
\* year, when the selected entity is among the top_n highest-valued
\* records, and top_n + 1 rows otherwise, exactly one row of the selected
\* entity having been appended; on a tie at the cut either may happen.
C2_Size ==
    (IsBar /\ SelDefined(df_long, fig.ano, fig.municipio) # {})
    => LET n == Cardinality(Defined(df_long, fig.ano))
       IN  /\ Len(fig.rows) \in {Min(fig.top_n, n), fig.top_n + 1}
           /\ Cardinality(NotBelow(df_long, fig.ano, fig.municipio)) <= fig.top_n
                => Len(fig.rows) = Min(fig.top_n, n)
           /\ Cardinality(StrictlyAbove(df_long, fig.ano, fig.municipio)) >= fig.top_n
                => Len(fig.rows) = fig.top_n + 1
           /\ Len(fig.rows) = fig.top_n + 1 => Cardinality(SelectedRows) = 1

\* the year holds fewer valued records than top_n
C2_Witness ==
    /\ IsBar
    /\ SelDefined(df_long, fig.ano, fig.municipio) # {}
    /\ fig.top_n = 2
    /\ Len(fig.rows) = 1
    /\ SelectedRows = {1}

\* C3 as stated, on datasets keyed by (entity, year): a row is tagged
\* "Selecionado" iff it is the selected entity's; one row is tagged when
\* the entity has a record for the year, none when it has no record.
C3_TagAsStated ==
    (IsBar /\ UniqueKeys(df_long))
    => /\ TaggedRows = SelectedRows
       /\ Present(df_long, fig.ano, fig.municipio) # {} => Cardinality(TaggedRows) = 1
       /\ Present(df_long, fig.ano, fig.municipio) = {}
            => (TaggedRows = {} /\ NaturalTop(df_long, fig.ano)
                /\ Len(fig.rows) = Min(fig.top_n, Cardinality(Defined(df_long, fig.ano))))

\* C3 amended: a row is tagged "Selecionado" iff it is the selected
\* entity's, else "Outros"; exactly one row is tagged when the entity has
\* exactly one record with a value for the year; none is tagged when it has
\* no record with a value for the year (no record, or absent values only),
\* and the output is then the natural top N.
C3_Tag ==
    IsBar
    => /\ TaggedRows = SelectedRows
       /\ \A j \in 1..Len(fig.rows) : fig.rows[j].sel \in {"Selecionado", "Outros"}
       /\ Cardinality(SelDefined(df_long, fig.ano, fig.municipio)) = 1
            => Cardinality(TaggedRows) = 1
       /\ SelDefined(df_long, fig.ano, fig.municipio) = {}
            => (TaggedRows = {} /\ NaturalTop(df_long, fig.ano)
                /\ Len(fig.rows) = Min(fig.top_n, Cardinality(Defined(df_long, fig.ano))))

\* the selected entity has a record for the year, whose value is absent
C3_Witness ==
    /\ IsBar
    /\ Present(df_long, fig.ano, fig.municipio) # {}
    /\ SelDefined(df_long, fig.ano, fig.municipio) = {}
    /\ Len(fig.rows) = 2
    /\ TaggedRows = {}

\* C4: the rows of the ranking are in non-decreasing order of value, and
\* none has an absent value or another year than the queried one.
C4_DisplayOrder ==
    IsBar
    => /\ \A j \in 1..(Len(fig.rows) - 1) : fig.rows[j].val.v <= fig.rows[j + 1].val.v
       /\ \A j \in 1..Len(fig.rows) :
            ~IsNa(fig.rows[j].val) /\ Some(fig.rows[j].Ano) = fig.ano

\* the selected entity appended below the cut, in a year that also holds
\* a record without a value
C4_Witness ==
    /\ IsBar
    /\ Len(fig.rows) = 2
    /\ fig.top_n = 1
    /\ fig.rows[1].sel = "Selecionado"
    /\ fig.rows[1].val.v < fig.rows[2].val.v
    /\ \E i \in 1..Len(df_long.rows) :
          Some(df_long.rows[i].Ano) = fig.ano /\ IsNa(df_long.rows[i].val)

\* a stable sort: rows of equal value keep their relative order
StableSort(rows, ascending) ==
    LET d == DropNa(rows)
        p == CHOOSE q \in Perms(Len(d)) :
                /\ InOrder(d, q, ascending)
                /\ \A i \in 1..(Len(d) - 1) :
                      d[q[i]].val.v = d[q[i + 1]].val.v => q[i] < q[i + 1]
    IN  [i \in 1..Len(d) |-> d[p[i]]] \o NaRows(rows)

\* the ranking when both sorts are stable
StableRanking(df, ano, municipio, top_n) ==
    LET dfy == StableSort(DropNa(FilterYear(df.rows, ano)), FALSE)
    IN  StableSort(
            Tag(WithSelected(HeadRows(dfy, top_n), SelRows(dfy, municipio), municipio),
                municipio),
            TRUE)

\* C5: rows of equal value keep their original relative order through
\* both sorts, so the ranking is the one the stable sorts give.
C5_StableTieBreak ==
    IsBar => fig.rows = StableRanking(df_long, fig.ano, fig.municipio, fig.top_n)

\* C6: with the year or the selected entity unset, ranking_fig returns the
\* placeholder figure, whatever the dataset and top_n, and raises nothing.
C6_UnsetPlaceholder ==
    (Called /\ (fig.ano = None \/ fig.municipio = None))
    => (fig.kind = "placeholder" /\ fig.rows = << >> /\ fig.height = 420)

\* an unset entity with a year, on a frame the selection would fail on
C6_Witness ==
    /\ fig.kind = "placeholder"
    /\ fig.ano # None
    /\ fig.municipio = None
    /\ ~df_long.hasMunicipio
    /\ df_long.rows # << >>

---------------------------------------------------------------------------
(* Data frames: [columns |-> headers, rows |-> rows of cells]              *)

\* a column header: a string, or an integer (a year)
H(name) == [t |-> "str", v |-> name]
Y(year) == [t |-> "int", v |-> year]

CODE == H("Codigo IBGE")
NAME == H("Nome_Municipio")
INDICADOR == H("Indicador")

Range(s) == {s[i] : i \in DOMAIN s}
HasCol(df, h) == h \in Range(df.columns)
ColIdx(df, h) == CHOOSE i \in 1..Len(df.columns) : df.columns[i] = h

Digit(c) ==
    CASE c = "0" -> 0 [] c = "1" -> 1 [] c = "2" -> 2 [] c = "3" -> 3 [] c = "4" -> 4
      [] c = "5" -> 5 [] c = "6" -> 6 [] c = "7" -> 7 [] c = "8" -> 8 [] c = "9" -> 9
      [] OTHER -> -1

RECURSIVE DecimalValue(_)
DecimalValue(s) ==
    IF s = << >> THEN 0
    ELSE 10 * DecimalValue(SubSeq(s, 1, Len(s) - 1)) + Digit(s[Len(s)])

\* pd.to_numeric(cell, errors="coerce"): a number stays, a string of
\* decimal digits is parsed, any other string and a missing cell are NaN
to_numeric(c) ==
    CASE c.t = "num" -> c
      [] c.t = "flt" -> c
      [] c.t = "str" ->
            IF c.v # << >> /\ \A i \in 1..Len(c.v) : Digit(c.v[i]) >= 0
            THEN Num(DecimalValue(c.v)) ELSE NaN
      [] OTHER -> NaN

\* .fillna(0).astype(int): NaN becomes 0, a float is truncated
fillna0_int(c) ==
    CASE c.t = "num" -> c.v
      [] c.t = "flt" -> c.v[1]
      [] OTHER -> 0

\* mutant: the upper bound is taken inclusive
is_muni_Inclusive(ibge) == ibge >= MUNICIPAL_IBGE_MIN /\ ibge <= MUNICIPAL_IBGE_MAX

\* (ibge >= MUNICIPAL_IBGE_MIN) & (ibge < MUNICIPAL_IBGE_MAX)
is_muni(ibge) == ibge >= MUNICIPAL_IBGE_MIN /\ ibge < MUNICIPAL_IBGE_MAX

RECURSIVE DigitsOf(_)
DigitsOf(n) ==
    LET d == <<"0", "1", "2", "3", "4", "5", "6", "7", "8", "9">>
    IN  IF n < 10 THEN <<d[n + 1]>> ELSE DigitsOf(n \div 10) \o <<d[(n % 10) + 1]>>

\* Series.astype(str) on one cell
astype_str(c) ==
    CASE c.t = "str" -> c.v
      [] c.t = "num" -> DigitsOf(c.v)
      [] c.t = "flt" -> DigitsOf(c.v[1]) \o <<".">> \o DigitsOf(c.v[2])
      [] OTHER -> <<"n", "a", "n">>

RECURSIVE LStrip(_)
LStrip(s) == IF s # << >> /\ Head(s) = " " THEN LStrip(Tail(s)) ELSE s

RECURSIVE RStrip(_)
RStrip(s) ==
    IF s # << >> /\ s[Len(s)] = " " THEN RStrip(SubSeq(s, 1, Len(s) - 1)) ELSE s

\* str.strip()
Strip(s) == RStrip(LStrip(s))

UpperChar(c) ==
    CASE c = "a" -> "A" [] c = "a'" -> "A'" [] c = "b" -> "B" [] c = "g" -> "G"
      [] c = "i" -> "I" [] c = "n" -> "N" [] c = "o" -> "O" [] c = "p" -> "P"
      [] c = "r" -> "R" [] c = "x" -> "X" [] c = "c" -> "C" [] c = "e" -> "E"
      [] c = "l" -> "L" [] c = "t" -> "T" [] c = "u" -> "U"
      [] OTHER -> c

\* str.upper()
Upper(s) == [i \in 1..Len(s) |-> UpperChar(s[i])]

StartsWith(s, prefix) == Len(s) >= Len(prefix) /\ SubSeq(s, 1, Len(prefix)) = prefix

\* nome.str.upper().isin(["PARA'", "PARA"])
is_para(nome) == Upper(nome) \in {<<"P", "A", "R", "A'">>, <<"P", "A", "R", "A">>}

\* nome.str.upper().str.startswith("RI ")
is_ri(nome) == StartsWith(Upper(nome), <<"R", "I", " ">>)

\* the row with its code cell replaced by the coerced integer code
WithCode(df, r) ==
    [r EXCEPT ![ColIdx(df, CODE)] = Num(fillna0_int(to_numeric(r[ColIdx(df, CODE)])))]

Frame(columns, rows) == [kind |-> "frame", columns |-> columns, rows |-> rows]

only_municipios_from_indicador_sheet(df) ==
    IF ~HasCol(df, CODE) \/ ~HasCol(df, INDICADOR)
    THEN Frame(df.columns, df.rows)
    ELSE LET ibge_int(r) == fillna0_int(to_numeric(r[ColIdx(df, CODE)]))
             nome(r) == Strip(astype_str(r[ColIdx(df, INDICADOR)]))
             Keep(r) == is_muni(ibge_int(r)) /\ ~is_para(nome(r)) /\ ~is_ri(nome(r))
             out == SelectSeq(df.rows, Keep)
         IN  Frame(df.columns, [i \in 1..Len(out) |-> WithCode(df, out[i])])

only_municipios_from_nome_municipio_sheet(df) ==
    IF ~HasCol(df, CODE)
    THEN Frame(df.columns, df.rows)
    ELSE LET ibge(r) == fillna0_int(to_numeric(r[ColIdx(df, CODE)]))
             Keep(r) == is_muni(ibge(r))
             out == SelectSeq(df.rows, Keep)
         IN  Frame(df.columns, [i \in 1..Len(out) |-> WithCode(df, out[i])])

---------------------------------------------------------------------------
(* Inputs of the Entity Filter specification *)

POP == H("Pop")

CodeCells ==
    {Num(1499999), Num(1500000), Num(1599999), Num(1600000), Flt(1599999, 5),
     Str(<<"a", "b", "c">>), Str(<<"1", "5", "0", "0", "0", "0", "1">>), NaN}

Belem == Str(<<"B">>)
RIXingu == Str(<<"R", "I", " ", "X">>)

LabelCells ==
    {Belem, RIXingu,
     Str(<<"P", "a", "r", "a'">>), Str(<<"P", "A", "R", "A">>), Str(<<"p", "a", "r", "a">>),
     Str(<<" ", "P", "a", "r", "a'", " ">>),
     Str(<<"r", "i", " ", "x">>), Str(<<"R", "I", " ">>), Str(<<"R", "I">>),
     Str(<<"P", "a", "r", "a", "g">>), Str(<<"R", "i", "o">>), NaN}

FilterLayouts ==
    {<<CODE, INDICADOR, POP>>, <<INDICADOR, POP>>, <<CODE, POP>>, <<INDICADOR, CODE>>,
     <<CODE, NAME>>, <<NAME, CODE>>, <<NAME>>}

FilterCells(h) ==
    CASE h = CODE -> CodeCells
      [] h = INDICADOR -> LabelCells
      [] h = NAME -> {Str(<<"A">>)}
      [] OTHER -> {Num(10)}

RECURSIVE FilterRows(_)
FilterRows(columns) ==
    IF columns = << >> THEN {<< >>}
    ELSE {<<c>> \o r : c \in FilterCells(Head(columns)), r \in FilterRows(Tail(columns))}

\* on a sheet with both a code and a label column, one of the two cells
\* of a row is an ordinary one
Paired(columns, r) ==
    (CODE \in Range(columns) /\ INDICADOR \in Range(columns))
    => LET df == [columns |-> columns, rows |-> << >>]
       IN  \/ r[ColIdx(df, CODE)] = Num(1500000)
           \/ r[ColIdx(df, INDICADOR)] \in {Belem, RIXingu}

InitFilter ==
    /\ \E L \in FilterLayouts, k \in 0..MaxSheetRows :
          \E rs \in [1..k -> {r \in FilterRows(L) : Paired(L, r)}] :
              sheet = [columns |-> L, rows |-> rs]
    /\ kept = NoCall
    /\ melted = NoCall
    /\ df_long = [hasMunicipio |-> TRUE, rows |-> << >>]
    /\ fig = NoFig
    /\ DashIdle

\* one call of the indicator-sheet filter on the sheet
CallFilterIndicador ==
    /\ kept = NoCall
    /\ kept' = [fn |-> "indicador", out |-> only_municipios_from_indicador_sheet(sheet)]
    /\ UNCHANGED <<df_long, fig, sheet, melted, dash>>

\* one call of the financial-sheet filter on the sheet
CallFilterNomeMunicipio ==
    /\ kept = NoCall
    /\ kept' = [fn |-> "nome_municipio",
                out |-> only_municipios_from_nome_municipio_sheet(sheet)]
    /\ UNCHANGED <<df_long, fig, sheet, melted, dash>>

NextFilter == CallFilterIndicador \/ CallFilterNomeMunicipio

SpecFilter == InitFilter /\ [][NextFilter]_vars

---------------------------------------------------------------------------
(* The Entity Filter claim *)

Filtered == kept.fn # "none"

\* the cell of column h in row r of the filter's output
KeptCell(r, h) == r[ColIdx(kept.out, h)]

InRange(c) == c.t = "num" /\ 1500000 <= c.v /\ c.v < 1600000

\* the label as it stands in the sheet, upper-cased
RawLabel(r) == Upper(astype_str(KeptCell(r, INDICADOR)))
\* the label with the surrounding blanks trimmed, upper-cased
TrimmedLabel(r) == Upper(Strip(astype_str(KeptCell(r, INDICADOR))))

Aggregate(label) ==
    \/ label \in {<<"P", "A", "R", "A'">>, <<"P", "A", "R", "A">>}
    \/ (Len(label) >= 3 /\ label[1] = "R" /\ label[2] = "I" /\ label[3] = " ")

\* the filter has the columns it decides on
Applicable ==
    /\ HasCol(sheet, CODE)
    /\ kept.fn = "indicador" => HasCol(sheet, INDICADOR)

\* row r of the output is a row of the sheet whose code cell is numeric,
\* with the code coerced
FromSheet(r) ==
    \E i \in 1..Len(sheet.rows) :
        /\ ~IsNa(to_numeric(sheet.rows[i][ColIdx(sheet, CODE)]))
        /\ \A k \in 1..Len(sheet.columns) :
              sheet.columns[k] # CODE => r[k] = sheet.rows[i][k]

---------------------------------------------------------------------------
(* format_ptbr_number and format_value                                     *)
(* A text is a sequence of one-character tokens; the token "--" stands    *)
(* for the em dash.                                                        *)

\* further values of a cell: Python's None, a bool, and the float h / 100
PyNone == [t |-> "none", v |-> 0]
Bool(b) == [t |-> "bool", v |-> b]
Dec(h) == [t |-> "dec", v |-> h]

DASH == <<"--">>

core == <<df_long, fig, sheet, kept, melted>>

\* no sheet read, nothing filtered, reshaped or ranked
CoreIdle ==
    /\ df_long = [hasMunicipio |-> TRUE, rows |-> << >>]
    /\ fig = NoFig
    /\ sheet = NoSheet
    /\ kept = NoCall
    /\ melted = NoCall

IsNumber(v) == v.t \in {"num", "flt", "dec"}

\* float(x), in hundredths
Hundredths(x) ==
    CASE x.t = "num" -> 100 * x.v
      [] x.t = "flt" -> 100 * x.v[1] + 10 * x.v[2]
      [] OTHER -> x.v

Abs(n) == IF n < 0 THEN -n ELSE n
Sign(n) == IF n < 0 THEN <<"-">> ELSE << >>

\* the digits of n, with zeros in front up to the width w
Pad(n, w) == [i \in 1..(w - Len(DigitsOf(n))) |-> "0"] \o DigitsOf(n)

RECURSIVE Grouped(_)
\* the "," of a format specification: the digits of n >= 0 in groups of
\* three, a comma between the groups
Grouped(n) ==
    IF n < 1000 THEN DigitsOf(n)
    ELSE Grouped(n \div 1000) \o <<",">> \o Pad(n % 1000, 3)

\* f"{float(x):,.2f}" of the float h / 100
FixedTwo(h) ==
    Sign(h) \o Grouped(Abs(h) \div 100) \o <<".">> \o Pad(Abs(h) % 100, 2)

\* str.replace(a, b), a and b being one character each
Replace(s, a, b) == [i \in 1..Len(s) |-> IF s[i] = a THEN b ELSE s[i]]

format_ptbr_number(x) ==
    Replace(Replace(Replace(FixedTwo(Hundredths(x)), ",", "X"), ".", ","), "X", ".")

\* sub in s
Contains(s, sub) ==
    \E i \in 0..(Len(s) - Len(sub)) : SubSeq(s, i + 1, i + Len(sub)) = sub

\* float(v).is_integer()
is_integer(v) == Hundredths(v) % 100 = 0

\* f"{int(v):,}" of an integral v
IntGrouped(v) == Sign(Hundredths(v)) \o Grouped(Abs(Hundredths(v)) \div 100)

Text(s) == [kind |-> "str", v |-> s]
Raised(e) == [kind |-> e, v |-> << >>]
Pending == [kind |-> "pending", v |-> << >>]

\* format_value(indicador, v): the text, or the TypeError that
\* '"%" in indicador' raises when indicador is None
format_value(indicador, v) ==
    LET ind == IF indicador = None THEN << >> ELSE indicador[1]   \* (indicador or "")
        ind_upper == Upper(ind)
    IN  IF v.t \in {"none", "nan"} THEN Text(DASH)
        ELSE IF v.t = "str" THEN Text(v.v)
        ELSE IF v.t = "bool"
        THEN Text(IF v.v THEN <<"T", "r", "u", "e">> ELSE <<"F", "a", "l", "s", "e">>)
        ELSE IF Contains(ind_upper, <<"R", "$">>)
        THEN Text(<<"R", "$", " ">> \o format_ptbr_number(v))
        ELSE IF Contains(ind_upper, <<"P", "E", "R", "C", "E", "N", "T">>)
        THEN Text(format_ptbr_number(v) \o <<"%">>)
        ELSE IF indicador = None THEN Raised("TypeError")
        ELSE IF Contains(ind, <<"%">>) THEN Text(format_ptbr_number(v) \o <<"%">>)
        ELSE IF is_integer(v) THEN Text(Replace(IntGrouped(v), ",", "."))
        ELSE Text(format_ptbr_number(v))

---------------------------------------------------------------------------
(* Inputs of the Numeric Formatter specification *)

Hints ==
    {None, Some(<< >>), Some(<<"P", "o", "p">>),
     Some(<<"P", "I", "B", " ", "R", "$">>), Some(<<"p", "i", "b", " ", "r", "$">>),
     Some(<<"T", "x", " ", "%">>), Some(<<"p", "e", "r", "c", "e", "n", "t", "u", "a", "l">>),
     Some(<<"P", "E", "R", "C", "E", "N", "T">>),
     Some(<<"R", "$", " ", "%">>), Some(<<"P", "e", "r", "c", "e", "n", "t", " ", "r", "$">>),
     Some(<<"%", " ", "R">>)}

FormatValues ==
    {PyNone, NaN, Str(<<"x">>), Str(<< >>), Bool(TRUE), Bool(FALSE),
     Num(0), Num(5), Num(999), Num(1000), Num(1234567), Num(-1234),
     Dec(123456789), Dec(5), Dec(50), Dec(500), Dec(100000), Dec(-123450), Dec(99999),
     Flt(12, 5)}

InitFormat ==
    /\ \E h \in Hints, x \in FormatValues :
          call = [fn |-> "format_value", indicador |-> h, v |-> x, out |-> Pending]
    /\ loaded = NoLoad
    /\ ui = NoUi
    /\ inflight = {}
    /\ rendered = NoRender
    /\ CoreIdle

\* one call of format_value on the drawn hint and value
CallFormatValue ==
    /\ call.fn = "format_value"
    /\ call.out = Pending
    /\ call' = [call EXCEPT !.out = format_value(call.indicador, call.v)]
    /\ UNCHANGED <<core, loaded, ui, inflight, rendered>>

NextFormat == CallFormatValue

SpecFormat == InitFormat /\ [][NextFormat]_vars

---------------------------------------------------------------------------
(* The Numeric Formatter claim, stated on the drawn hint and value and    *)
(* the text returned                                                      *)

Formatted == call.fn = "format_value" /\ call.out # Pending

\* the hint holds "R$", in either case of the letter
HasCurrency(h) ==
    h # None /\ \E i \in 1..(Len(h[1]) - 1) : h[1][i] \in {"R", "r"} /\ h[1][i + 1] = "$"

\* the hint holds "%", or the word "percent" in any case of its letters
HasPercent(h) ==
    /\ h # None
    /\ \/ \E i \in 1..Len(h[1]) : h[1][i] = "%"
       \/ \E i \in 0..(Len(h[1]) - 7) :
             /\ h[1][i + 1] \in {"p", "P"} /\ h[1][i + 2] \in {"e", "E"}
             /\ h[1][i + 3] \in {"r", "R"} /\ h[1][i + 4] \in {"c", "C"}
             /\ h[1][i + 5] \in {"e", "E"} /\ h[1][i + 6] \in {"n", "N"}
             /\ h[1][i + 7] \in {"t", "T"}

IsDigit(c) == c \in {"0", "1", "2", "3", "4", "5", "6", "7", "8", "9"}

\* an integer in the pt-BR form: an optional sign, one to three digits,
\* then groups of "." and three digits; no zero in front of a longer number
GroupedInt(tx) ==
    LET b == IF tx # << >> /\ tx[1] = "-" THEN Tail(tx) ELSE tx
        first == IF \E i \in 1..Len(b) : b[i] = "."
                 THEN (CHOOSE i \in 1..Len(b) : b[i] = "." /\ \A j \in 1..(i - 1) : b[j] # ".") - 1
                 ELSE Len(b)
    IN  /\ first \in 1..3
        /\ (Len(b) - first) % 4 = 0
        /\ \A i \in 1..Len(b) :
              IF i > first /\ (i - first) % 4 = 1 THEN b[i] = "." ELSE IsDigit(b[i])
        /\ Len(b) > 1 => b[1] # "0"

\* the integer a pt-BR grouped integer stands for
IntOf(tx) ==
    LET b == IF tx # << >> /\ tx[1] = "-" THEN Tail(tx) ELSE tx
        IsD(c) == IsDigit(c)
        n == DecimalValue(SelectSeq(b, IsD))
    IN  IF tx # << >> /\ tx[1] = "-" THEN -n ELSE n

\* tx is the grouped 2-decimal pt-BR form of the number x
TwoDecimals(tx, x) ==
    /\ Len(tx) >= 4
    /\ tx[Len(tx) - 2] = ","
    /\ IsDigit(tx[Len(tx) - 1]) /\ IsDigit(tx[Len(tx)])
    /\ GroupedInt(SubSeq(tx, 1, Len(tx) - 3))
    /\ LET whole == IntOf(SubSeq(tx, 1, Len(tx) - 3))
           cents == DecimalValue(SubSeq(tx, Len(tx) - 1, Len(tx)))
           neg == tx[1] = "-"
       IN  Hundredths(x) = IF neg THEN 100 * whole - cents ELSE 100 * whole + cents

\* tx is the grouped integer pt-BR form of the integral number x
NoDecimals(tx, x) == GroupedInt(tx) /\ 100 * IntOf(tx) = Hundredths(x)

Integral(x) == x.t = "num" \/ (x.t = "flt" /\ x.v[2] = 0) \/ (x.t = "dec" /\ x.v % 100 = 0)

\* the six rules, in their order, on one hint and value
RulePriority(h, x, out) ==
    /\ out.kind = "str"
    /\ LET tx == out.v
       IN  CASE x.t \in {"none", "nan"} -> tx = DASH
             [] x.t = "str" -> tx = x.v
             [] x.t = "bool" ->
                   tx = IF x.v THEN <<"T", "r", "u", "e">> ELSE <<"F", "a", "l", "s", "e">>
             [] OTHER ->
                   IF HasCurrency(h)
                   THEN /\ Len(tx) > 3 /\ SubSeq(tx, 1, 3) = <<"R", "$", " ">>
                        /\ TwoDecimals(SubSeq(tx, 4, Len(tx)), x)
                   ELSE IF HasPercent(h)
                   THEN /\ Len(tx) > 1 /\ tx[Len(tx)] = "%"
                        /\ TwoDecimals(SubSeq(tx, 1, Len(tx) - 1), x)
                   ELSE IF Integral(x) THEN NoDecimals(tx, x)
                   ELSE TwoDecimals(tx, x)

\* C13: for every hint and value format_value returns the text of the
\* first rule that matches, in the order absent, string or boolean,
\* currency hint, percentage hint, integral, other; 1234567.89 under a
\* currency hint gives "R$ 1.234.567,89" and 1234567 under a hint with no
\* marker "1.234.567".
C13_RulePriority ==
    Formatted
    => /\ RulePriority(call.indicador, call.v, call.out)
       /\ (call.indicador = Some(<<"P", "I", "B", " ", "R", "$">>) /\ call.v = Dec(123456789))
            => call.out.v = <<"R", "$", " ", "1", ".", "2", "3", "4", ".", "5", "6", "7",
                              ",", "8", "9">>
       /\ (~HasCurrency(call.indicador) /\ ~HasPercent(call.indicador)
           /\ call.v = Num(1234567))
            => call.out.v = <<"1", ".", "2", "3", "4", ".", "5", "6", "7">>

\* the same on the hints that are strings
C13_OnStringHints == call.indicador # None => C13_RulePriority

\* 1234567.89 under a currency hint that also holds a percentage marker
C13_OnStringHints_Witness ==
    /\ Formatted
    /\ call.indicador = Some(<<"R", "$", " ", "%">>)
    /\ call.v = Dec(123456789)
    /\ call.out.v = <<"R", "$", " ", "1", ".", "2", "3", "4", ".", "5", "6", "7", ",", "8", "9">>

---------------------------------------------------------------------------
(* The load of an indicator sheet into dfs_kv, and wide_to_kv             *)

IBGE == H("IBGE")
MUNICIPIO == H("Municipio")
RINTEG == H("R. Integ.")
PIB == H("PIB R$")
TX == H("Tx %")

\* df.rename(columns={"Codigo IBGE": "IBGE", "Indicador": "Municipio"})
RenameKv(df) ==
    [df EXCEPT !.columns =
        [i \in 1..Len(df.columns) |->
            IF df.columns[i] = CODE THEN IBGE
            ELSE IF df.columns[i] = INDICADOR THEN MUNICIPIO
            ELSE df.columns[i]]]

\* the body of the loop that fills dfs_kv, for one sheet
load_kv(df) == RenameKv(only_municipios_from_indicador_sheet(df))

\* str(k): the characters of a column header
HeaderText(k) ==
    IF k.t = "int" THEN DigitsOf(k.v)
    ELSE CASE k.v = "Pop" -> <<"P", "o", "p">>
           [] k.v = "PIB R$" -> <<"P", "I", "B", " ", "R", "$">>
           [] k.v = "Tx %" -> <<"T", "x", " ", "%">>
           [] k.v = "IBGE" -> <<"I", "B", "G", "E">>
           [] k.v = "Municipio" -> <<"M", "u", "n", "i", "c", "i", "p", "i", "o">>
           [] k.v = "Indicador" -> <<"I", "n", "d", "i", "c", "a", "d", "o", "r">>
           [] k.v = "R. Integ." -> <<"R", ".", " ", "I", "n", "t", "e", "g", ".">>
           [] OTHER -> <<k.v>>

\* the text of the sentinel row, as one token
NOT_FOUND == <<"Municipio nao encontrado nessa aba">>

Pair(label, value) == [Indicador |-> label, Valor |-> value]
Table(rows) == [kind |-> "frame", rows |-> rows]

\* mutant: the comparison with the requested name is lost
MatchRows_All(df, municipio, nome_col) == [i \in 1..Len(df.rows) |-> i]

\* df.loc[df[nome_col] == municipio], by position
MatchRows(df, municipio, nome_col) ==
    LET Keep(i) == Some(df.rows[i][ColIdx(df, nome_col)]) = municipio
    IN  SelectSeq([i \in 1..Len(df.rows) |-> i], Keep)

\* k in ["Codigo IBGE", "R. Integ.", "Indicador", "Nome_Municipio"]
Stripped(k) == k \in {CODE, RINTEG, INDICADOR, NAME}

\* wide_to_kv(df, municipio, nome_col): the two-column table, or the
\* KeyError of df[nome_col] on a frame without that column
wide_to_kv(df, municipio, nome_col) ==
    IF ~HasCol(df, nome_col) THEN [kind |-> "KeyError", rows |-> << >>]
    ELSE LET row == MatchRows(df, municipio, nome_col)
         IN  IF row = << >>
             THEN Table(<<Pair(DASH, NOT_FOUND)>>)
             ELSE LET Keep(i) == ~Stripped(df.columns[i])
                      ks == SelectSeq([i \in 1..Len(df.columns) |-> i], Keep)
                  IN  Table([j \in 1..Len(ks) |->
                          Pair(HeaderText(df.columns[ks[j]]),
                               format_value(Some(HeaderText(df.columns[ks[j]])),
                                            df.rows[row[1]][ks[j]]).v)])

---------------------------------------------------------------------------
(* Inputs of the Projector specification *)

KvLayouts ==
    {<<CODE, INDICADOR, RINTEG, POP, PIB>>,
     <<INDICADOR, CODE, TX>>,
     <<CODE, INDICADOR>>,
     <<INDICADOR, POP>>,
     <<CODE, POP>>}

KvCells(h) ==
    CASE h = CODE -> {Num(1500001), Num(1600000)}
      [] h = INDICADOR -> {Str(<<"A">>), Str(<<"B">>), RIXingu}
      [] h = RINTEG -> {Str(<<"X">>)}
      [] h = POP -> {Num(1234567), NaN}
      [] h = PIB -> {Dec(123456789)}
      [] OTHER -> {Dec(50), Str(<<"x">>)}

RECURSIVE KvRows(_)
KvRows(columns) ==
    IF columns = << >> THEN {<< >>}
    ELSE {<<c>> \o r : c \in KvCells(Head(columns)), r \in KvRows(Tail(columns))}

InitProject ==
    /\ \E L \in KvLayouts, k \in 0..MaxSheetRows :
          \E rs \in [1..k -> KvRows(L)] :
              sheet = [columns |-> L, rows |-> rs]
    /\ df_long = [hasMunicipio |-> TRUE, rows |-> << >>]
    /\ fig = NoFig
    /\ kept = NoCall
    /\ melted = NoCall
    /\ DashIdle

\* the load of the sheet into dfs_kv
LoadKv ==
    /\ loaded = NoLoad
    /\ loaded' = [state |-> "kv", dfs_kv |-> load_kv(sheet)]
    /\ UNCHANGED <<core, call, ui, inflight, rendered>>

\* _update_kv_table: one call of wide_to_kv on the loaded dataset
CallWideToKv ==
    /\ loaded.state = "kv"
    /\ call = NoPure
    /\ \E municipio \in {Some(n) : n \in Names} \cup {None} :
          call' = [fn |-> "wide_to_kv", municipio |-> municipio,
                   out |-> wide_to_kv(loaded.dfs_kv, municipio, MUNICIPIO)]
    /\ UNCHANGED <<core, loaded, ui, inflight, rendered>>

NextProject == LoadKv \/ CallWideToKv

SpecProject == InitProject /\ [][NextProject]_vars

---------------------------------------------------------------------------
(* The Projector claims, stated on the sheet, dfs_kv and the table        *)

Projected == call.fn = "wide_to_kv"

\* the rows of dfs_kv that carry the requested name
Found ==
    {i \in 1..Len(loaded.dfs_kv.rows) :
        \E c \in 1..Len(loaded.dfs_kv.columns) :
            /\ loaded.dfs_kv.columns[c] = MUNICIPIO
            /\ Some(loaded.dfs_kv.rows[i][c]) = call.municipio}

HasNameColumn == \E c \in 1..Len(loaded.dfs_kv.columns) : loaded.dfs_kv.columns[c] = MUNICIPIO

\* an identifier or metadata column: the entity code and the entity name
\* under the headers of the sheet or of dfs_kv, the regional label
Identifier(k) == k \in {CODE, IBGE, INDICADOR, MUNICIPIO, NAME, RINTEG}

\* C11: for dfs_kv as loaded from an indicator sheet (a code column, a
\* label column and indicator columns) and an entity found in it, the
\* projection holds no pair labelled with the code column, the name column
\* or a regional or indicator-label column, and holds every other column
\* once, in the order of the sheet, as (column name, the cell formatted
\* under that name).
C11_StripsIdentifiers ==
    (Projected /\ HasCol(sheet, CODE) /\ HasCol(sheet, INDICADOR) /\ Found # {})
    => /\ call.out.kind = "frame"
       /\ LET first == CHOOSE i \in Found : \A j \in Found : i <= j
              Keep(c) == ~Identifier(loaded.dfs_kv.columns[c])
              rest == SelectSeq([c \in 1..Len(loaded.dfs_kv.columns) |-> c], Keep)
          IN  /\ Len(call.out.rows) = Len(rest)
              /\ \A j \in 1..Len(rest) :
                    /\ call.out.rows[j].Indicador = HeaderText(loaded.dfs_kv.columns[rest[j]])
                    /\ call.out.rows[j].Valor =
                          format_value(Some(HeaderText(loaded.dfs_kv.columns[rest[j]])),
                                       loaded.dfs_kv.rows[first][rest[j]]).v

\* C12 as stated: when no row carries the requested name the table is
\* one sentinel pair whose value is the dash, and nothing is raised.
C12_SentinelAsStated ==
    (Projected /\ HasNameColumn /\ Found = {})
    => /\ call.out.kind = "frame"
       /\ Len(call.out.rows) = 1
       /\ call.out.rows[1].Valor = DASH

\* C12 amended: when no row carries the requested name (none in the
\* sheet, none the filter kept, or no name requested) the table is one
\* sentinel pair whose label is the dash and whose value is the text that
\* the municipality was not found in this sheet, and nothing is raised.
C12_Sentinel ==
    (Projected /\ HasNameColumn /\ Found = {})
    => /\ call.out.kind = "frame"
       /\ call.out.rows = <<[Indicador |-> DASH, Valor |-> NOT_FOUND]>>

\* the requested entity is in the sheet, in a row the filter dropped
C12_Witness ==
    /\ Projected
    /\ HasNameColumn
    /\ Found = {}
    /\ loaded.dfs_kv.rows # << >>
    /\ \E i \in 1..Len(sheet.rows) :
          /\ HasCol(sheet, INDICADOR) /\ HasCol(sheet, CODE)
          /\ Some(sheet.rows[i][ColIdx(sheet, INDICADOR)]) = call.municipio
          /\ sheet.rows[i][ColIdx(sheet, CODE)] = Num(1600000)
    /\ call.out.rows = <<[Indicador |-> DASH, Valor |-> NOT_FOUND]>>

---------------------------------------------------------------------------
(* get_value *)

\* float(v)
ToFloat(v) == IF IsNumber(v) THEN Dec(Hundredths(v)) ELSE v

\* mutant: only None counts as absent
IsAbsent_NoneOnly(v) == v.t = "none"

\* v is None or (isinstance(v, float) and np.isnan(v))
IsAbsent(v) == v.t \in {"none", "nan"}

Value(x) == [kind |-> "value", v |-> x]

\* df_long[(df_long["Municipio"] == municipio) & (df_long["Ano"] == ano)]
LookupRows(df, municipio, ano) ==
    LET Keep(r) == Some(r.Municipio) = municipio /\ Some(r.Ano) = ano
    IN  SelectSeq(df.rows, Keep)

\* get_value(df_long, value_col, municipio, ano): the value or None, or the
\* KeyError of df_long["Municipio"] on a frame without that column
get_value(df, municipio, ano) ==
    IF ~df.hasMunicipio THEN [kind |-> "KeyError", v |-> None]
    ELSE LET d == LookupRows(df, municipio, ano)
         IN  IF d = << >> THEN Value(None)
             ELSE IF IsAbsent(d[1].val) THEN Value(None)
             ELSE Value(Some(ToFloat(d[1].val)))

\* one call of get_value on the loaded dataset
CallGetValue ==
    /\ call = NoPure
    /\ \E municipio \in {Some(n) : n \in Names} \cup {None},
          ano \in {Some(y) : y \in Years} \cup {None} :
            call' = [fn |-> "get_value", municipio |-> municipio, ano |-> ano,
                     out |-> get_value(df_long, municipio, ano)]
    /\ UNCHANGED <<core, loaded, ui, inflight, rendered>>

NextLookup == CallGetValue

SpecLookup == InitRank /\ [][NextLookup]_vars

---------------------------------------------------------------------------
(* The Lookup claim, stated on df_long and the value returned             *)

LookedUp == call.fn = "get_value"

\* the records of df_long for the requested entity and year
Matching ==
    {i \in 1..Len(df_long.rows) :
        /\ Some(df_long.rows[i].Municipio) = call.municipio
        /\ Some(df_long.rows[i].Ano) = call.ano}

---------------------------------------------------------------------------
(* melt_years *)

\* isinstance(c, str) and c.startswith("Unnamed"), on the headers of the
\* model: the placeholder headers the loader gives to unlabeled columns
IsUnnamed(h) == h.t = "str" /\ h.v \in {"Unnamed: 0", "Unnamed: 5"}

\* df.loc[:, [c for c in df.columns if not IsUnnamed(c)]]
DropUnnamed(df) ==
    LET Keep(i) == ~IsUnnamed(df.columns[i])
        pos == SelectSeq([i \in 1..Len(df.columns) |-> i], Keep)
    IN  [columns |-> [k \in 1..Len(pos) |-> df.columns[pos[k]]],
         rows |-> [i \in 1..Len(df.rows) |-> [k \in 1..Len(pos) |-> df.rows[i][pos[k]]]]]

\* isinstance(c, (int, np.integer))
IsYearCol(h) == h.t = "int"

RECURSIVE SortedInts(_)
\* sorted(...) of a set of integers
SortedInts(S) ==
    IF S = {} THEN << >>
    ELSE LET m == CHOOSE x \in S : \A y \in S : x <= y
         IN  <<m>> \o SortedInts(S \ {m})

\* mutant: the year columns are left in sheet order
year_cols_Unsorted(df) ==
    LET cols == SelectSeq(df.columns, IsYearCol)
    IN  [k \in 1..Len(cols) |-> cols[k].v]

\* sorted([c for c in df.columns if isinstance(c, (int, np.integer))])
year_cols(df) == SortedInts({h.v : h \in {c \in Range(df.columns) : IsYearCol(c)}})

\* [c for c in ["Codigo IBGE", "Nome_Municipio"] if c in df.columns]
base_cols(df) ==
    (IF HasCol(df, CODE) THEN <<CODE>> ELSE << >>)
    \o (IF HasCol(df, NAME) THEN <<NAME>> ELSE << >>)

\* mutant: the identifier columns are repeated where melt tiles them
MeltRow_Repeat(p, R, K) == ((p - 1) \div K) + 1

\* DataFrame.melt: record p of the output is row MeltRow of the frame
\* (the identifier columns are tiled once per value column) ...
MeltRow(p, R, K) == ((p - 1) % R) + 1
\* ... and value column MeltCol (the value columns follow one another)
MeltCol(p, R, K) == ((p - 1) \div R) + 1

\* mutant: the code column is looked up only where it exists
HasIBGE_Lenient(id_vars) == TRUE

\* out["IBGE"], read after the rename: the frame has the column iff the
\* sheet had the code column
HasIBGE(id_vars) == CODE \in Range(id_vars)

Dataset(kind, hasMunicipio, rows) ==
    [kind |-> kind, hasMunicipio |-> hasMunicipio, rows |-> rows]

melt_years(df0) ==
    LET df == only_municipios_from_nome_municipio_sheet(DropUnnamed(df0))
        years == year_cols(df)
        id_vars == base_cols(df)
        R == Len(df.rows)
        K == Len(years)
        Cell(i, h) == df.rows[i][ColIdx(df, h)]
        Record(p) ==
            LET i == MeltRow(p, R, K)
                y == years[MeltCol(p, R, K)]
            IN  [IBGE |-> IF HasCol(df, CODE)
                          THEN fillna0_int(to_numeric(Cell(i, CODE))) ELSE 0,
                 Municipio |-> IF HasCol(df, NAME) THEN Cell(i, NAME) ELSE NaN,
                 Ano |-> y,
                 val |-> to_numeric(Cell(i, Y(y)))]
    IN  IF ~HasIBGE(id_vars)
        THEN Dataset("KeyError", FALSE, << >>)
        ELSE Dataset("frame", HasCol(df, NAME), [p \in 1..(R * K) |-> Record(p)])

---------------------------------------------------------------------------
(* Inputs of the Reshaper specification *)

UNNAMED0 == H("Unnamed: 0")
OBS == H("Obs")

MeltLayouts ==
    {<<CODE, NAME, Y(2019), Y(2020)>>,
     <<UNNAMED0, CODE, NAME, Y(2020), Y(2019), OBS>>,
     <<NAME, CODE, Y(2019)>>,
     <<CODE, NAME, H("2021"), Y(2020)>>,
     <<CODE, NAME>>,
     <<CODE, Y(2019), Y(2020)>>,
     <<NAME, Y(2019), Y(2020)>>,
     <<Y(2019), Y(2020)>>,
     <<UNNAMED0, OBS>>}

MeltCells(h) ==
    CASE h = CODE -> {Num(1500001), Num(1600000), Str(<<"a", "b", "c">>)}
      [] h = NAME -> {Str(<<"A">>), Str(<<"B">>)}
      [] h = Y(2019) -> {Num(10), Str(<<"x">>), NaN}
      [] h = Y(2020) -> {Num(20), Str(<<"7">>)}
      [] h = UNNAMED0 -> {NaN}
      [] OTHER -> {Num(5)}

RECURSIVE MeltRows(_)
MeltRows(columns) ==
    IF columns = << >> THEN {<< >>}
    ELSE {<<c>> \o r : c \in MeltCells(Head(columns)), r \in MeltRows(Tail(columns))}

InitMelt ==
    /\ \E L \in MeltLayouts, k \in 0..MaxSheetRows :
          \E rs \in [1..k -> MeltRows(L)] :
              sheet = [columns |-> L, rows |-> rs]
    /\ kept = NoCall
    /\ melted = NoCall
    /\ df_long = [hasMunicipio |-> TRUE, rows |-> << >>]
    /\ fig = NoFig
    /\ DashIdle

\* one call of melt_years on the sheet
CallMeltYears ==
    /\ melted = NoCall
    /\ melted' = [fn |-> "melt_years", out |-> melt_years(sheet)]
    /\ UNCHANGED <<df_long, fig, sheet, kept, dash>>

NextMelt == CallMeltYears

SpecMelt == InitMelt /\ [][NextMelt]_vars

---------------------------------------------------------------------------
(* The Reshaper claims, stated on the input sheet and the output melted   *)

Melted == melted.fn # "none"
IsDataset == melted.out.kind = "frame"

AllDigits(str) == str # << >> /\ \A i \in 1..Len(str) : str[i] \in
    {"0", "1", "2", "3", "4", "5", "6", "7", "8", "9"}

\* the integer a code cell stands for: 0 when it is missing or not numeric
CodeOf(c) ==
    CASE c.t = "num" -> c.v
      [] c.t = "flt" -> c.v[1]
      [] c.t = "str" /\ AllDigits(c.v) -> DecimalValue(c.v)
      [] OTHER -> 0

\* the rows of the sheet the Entity Filter retains, by position, in order
Retained ==
    LET Keep(i) == /\ 1500000 <= CodeOf(sheet.rows[i][ColIdx(sheet, CODE)])
                   /\ CodeOf(sheet.rows[i][ColIdx(sheet, CODE)]) < 1600000
    IN  SelectSeq([i \in 1..Len(sheet.rows) |-> i], Keep)

\* the integer headers of the sheet, ascending
YearsAscending ==
    LET S == {h.v : h \in {c \in Range(sheet.columns) : c.t = "int"}}
    IN  CHOOSE q \in [1..Cardinality(S) -> S] :
            \A a, b \in 1..Cardinality(S) : a < b => q[a] < q[b]

\* the value a source cell is coerced to
CoercedFrom(c, x) ==
    /\ c.t \in {"num", "flt"} => x = c
    /\ (c.t = "str" /\ AllDigits(c.v)) => (x.t = "num" /\ x.v = DecimalValue(c.v))
    /\ (c.t = "nan" \/ (c.t = "str" /\ ~AllDigits(c.v))) => IsNa(x)

\* C8 as stated: each (entity name, year) pair appears at most once in
\* the long dataset melt_years returns.
C8_UniqueKeysAsStated ==
    (Melted /\ IsDataset /\ melted.out.hasMunicipio) => UniqueKeys(melted.out)

\* the retained rows of the sheet carry pairwise different names
DistinctNames ==
    \A a, b \in 1..Len(Retained) :
        sheet.rows[Retained[a]][ColIdx(sheet, NAME)]
            = sheet.rows[Retained[b]][ColIdx(sheet, NAME)] => a = b

\* C8 amended: for every financial sheet whose retained rows carry
\* pairwise different entity names, each (entity name, year) pair appears
\* at most once in the long dataset melt_years returns.
C8_UniqueKeys ==
    (Melted /\ IsDataset /\ melted.out.hasMunicipio /\ DistinctNames)
    => UniqueKeys(melted.out)

\* two entities over two years: four records
C8_Witness ==
    /\ Melted /\ IsDataset /\ melted.out.hasMunicipio
    /\ DistinctNames
    /\ Len(Retained) = 2
    /\ Len(melted.out.rows) = 4

\* C9: the dataset melt_years returns holds one record per (retained row,
\* integer-headed column), year by year in ascending order and row by row
\* in sheet order, each with the source cell coerced to a number, absent
\* when the cell is not numeric; no other column gives a record.
C9_Shape ==
    (Melted /\ IsDataset)
    => LET R == Len(Retained)
           K == Len(YearsAscending)
       IN  /\ Len(melted.out.rows) = R * K
           /\ \A k \in 1..K, i \in 1..R :
                 LET rec == melted.out.rows[(k - 1) * R + i]
                     src == sheet.rows[Retained[i]]
                 IN  /\ rec.Ano = YearsAscending[k]
                     /\ rec.IBGE = CodeOf(src[ColIdx(sheet, CODE)])
                     /\ melted.out.hasMunicipio
                           => rec.Municipio = src[ColIdx(sheet, NAME)]
                     /\ CoercedFrom(src[ColIdx(sheet, Y(YearsAscending[k]))], rec.val)

\* a sheet with a placeholder column, the years out of order and a row
\* the filter drops; the retained row gives two records, one of them of a
\* cell that is not numeric
C9_Witness ==
    /\ Melted /\ IsDataset
    /\ HasCol(sheet, UNNAMED0) /\ HasCol(sheet, OBS)
    /\ Len(sheet.rows) = 2
    /\ Len(Retained) = 1
    /\ Len(melted.out.rows) = 2
    /\ melted.out.rows[1].Ano = 2019
    /\ IsNa(melted.out.rows[1].val)
    /\ sheet.rows[Retained[1]][ColIdx(sheet, Y(2019))] = Str(<<"x">>)
    /\ melted.out.rows[2].val = Num(7)

\* C10: on a sheet with neither the code column nor the name column
\* melt_years fails and returns no dataset.
C10_NoIdentifierFails ==
    (Melted /\ ~HasCol(sheet, CODE) /\ ~HasCol(sheet, NAME))
    => (melted.out.kind = "KeyError" /\ melted.out.rows = << >>)

\* a sheet of year columns only, with rows
C10_Witness ==
    /\ Melted
    /\ ~HasCol(sheet, CODE) /\ ~HasCol(sheet, NAME)
    /\ HasCol(sheet, Y(2019))
    /\ Len(sheet.rows) = 2
    /\ melted.out.kind = "KeyError"

---------------------------------------------------------------------------
(* The one-time load, the page and the callbacks                          *)

DEFAULT_TOP_N == 20

\* sorted(receita_long["Municipio"].dropna().unique().tolist()), on the
\* names of the model
SortedNames(S) ==
    LET order == <<Str(<<"A">>), Str(<<"B">>), Str(<<"C">>)>>
        In(n) == n \in S
    IN  SelectSeq(order, In)

\* max(ANOS)
MaxOf(anos) == CHOOSE a \in Range(anos) : \A b \in Range(anos) : b <= a

\* the module-level names after the load of a workbook: kind is "ready",
\* or the exception that ends the start of the process
Load(wb) ==
    LET r == melt_years(wb.Receita)
        d == melt_years(wb.Despesa)
        f == melt_years(wb.FPM)
        munis == SortedNames({r.rows[i].Municipio : i \in 1..Len(r.rows)})
        anos == SortedInts({r.rows[i].Ano : i \in 1..Len(r.rows)})
    IN  IF r.kind # "frame" \/ d.kind # "frame" \/ f.kind # "frame" \/ ~r.hasMunicipio
        THEN [state |-> "KeyError"]
        ELSE [state |-> "ready",
              dfs_kv |-> load_kv(wb.Geral),
              receita_long |-> r, despesa_long |-> d, fpm_long |-> f,
              MUNICIPIOS |-> munis, ANOS |-> anos,
              DEFAULT_MUNI |-> IF munis # << >> THEN Some(munis[1]) ELSE None,
              DEFAULT_ANO |-> IF anos # << >> THEN Some(MaxOf(anos)) ELSE None]

\* mutant: the option carries the displayed year as its value
year_dropdown_Displayed(L, value) ==
    [options |-> [i \in 1..Len(L.ANOS) |->
                    [label |-> DigitsOf(display_year(L.ANOS[i])),
                     value |-> display_year(L.ANOS[i])]],
     value |-> value]

\* year_dropdown(id_, value): the options and the value of the component
year_dropdown(L, value) ==
    [options |-> [i \in 1..Len(L.ANOS) |->
                    [label |-> DigitsOf(display_year(L.ANOS[i])), value |-> L.ANOS[i]]],
     value |-> value]

\* the page as app.layout builds it
Layout(L) ==
    [municipio |-> L.DEFAULT_MUNI,
     ano_resumo |-> year_dropdown(L, L.DEFAULT_ANO),
     ano_receita |-> year_dropdown(L, L.DEFAULT_ANO),
     ano_despesa |-> year_dropdown(L, L.DEFAULT_ANO),
     ano_fpm |-> year_dropdown(L, L.DEFAULT_ANO)]

\* apply_year_ticks: the tick values are the real years, the tick texts
\* the displayed years
Ticks(anos_reais) ==
    [tickvals |-> anos_reais,
     ticktext |-> [i \in 1..Len(anos_reais) |-> DigitsOf(display_year(anos_reais[i]))]]

\* d.sort_values("Ano"): the rows in order of year, rows of the same year
\* in whatever order the sort leaves them
SortByAno(rows) ==
    {[i \in 1..Len(rows) |-> rows[p[i]]] :
        p \in {q \in Perms(Len(rows)) :
                 \A i \in 1..(Len(rows) - 1) : rows[q[i]].Ano <= rows[q[i + 1]].Ano}}

Line(kind, points, ticks, height) ==
    [kind |-> kind, points |-> points, ticks |-> ticks, height |-> height]

\* the figures series_fig can return
series_fig(L, df, municipio) ==
    IF municipio = None
    THEN {Line("placeholder", << >>, [tickvals |-> << >>, ticktext |-> << >>], 360)}
    ELSE IF ~df.hasMunicipio
    THEN {Line("KeyError", << >>, [tickvals |-> << >>, ticktext |-> << >>], 0)}
    ELSE {Line("line", d, Ticks(L.ANOS), 360) : d \in SortByAno(SelRows(df.rows, municipio))}

\* ranking_fig(...) followed by update_layout(height=420, title=... with
\* display_year(ano)), which raises TypeError on an unset year
RankingResumo(df, ano, municipio) ==
    IF ano = None
    THEN {Result("TypeError", << >>, ano, municipio, DEFAULT_TOP_N, 0, None)}
    ELSE {IF f.kind \in {"bar", "placeholder"}
          THEN [f EXCEPT !.height = 420, !.title = Some(display_year(ano[1]))]
          ELSE f : f \in ranking_fig(df, ano, municipio, DEFAULT_TOP_N)}

\* "—" if x is None else f"R$ {format_ptbr_number(x)}"
Card(x) == IF x = None THEN DASH ELSE <<"R", "$", " ">> \o format_ptbr_number(x[1])

\* None if (r is None or d is None) else (r - d)
Saldo(r, d) == IF r = None \/ d = None THEN None ELSE Some(Dec(r[1].v - d[1].v))

\* pd.merge(receita of the entity, despesa of the entity, on="Ano",
\* how="outer"): one row per pair of records of the same year, and one per
\* record without a partner; <<i, j>> pairs record i of the revenue with
\* record j of the expenditure, 0 standing for no record
MergedPairs(L, municipio) ==
    LET rr == SelRows(L.receita_long.rows, municipio)
        dd == SelRows(L.despesa_long.rows, municipio)
    IN  {x \in (1..Len(rr)) \X (1..Len(dd)) : rr[x[1]].Ano = dd[x[2]].Ano}
        \cup {<<i, 0>> : i \in {k \in 1..Len(rr) : \A j \in 1..Len(dd) : rr[k].Ano # dd[j].Ano}}
        \cup {<<0, j>> : j \in {k \in 1..Len(dd) : \A i \in 1..Len(rr) : rr[i].Ano # dd[k].Ano}}

MergedRow(L, municipio, x) ==
    LET rr == SelRows(L.receita_long.rows, municipio)
        dd == SelRows(L.despesa_long.rows, municipio)
    IN  [Ano |-> IF x[1] # 0 THEN rr[x[1]].Ano ELSE dd[x[2]].Ano,
         Receita |-> IF x[1] # 0 THEN rr[x[1]].val ELSE NaN,
         Despesa |-> IF x[2] # 0 THEN dd[x[2]].val ELSE NaN]

\* the revenue and expenditure series of update_resumo, sorted by year
fig_rd(L, municipio) ==
    LET S == MergedPairs(L, municipio)
        n == Cardinality(S)
    IN  {Line("line", [k \in 1..n |-> MergedRow(L, municipio, q[k])], Ticks(L.ANOS), 420) :
            q \in {o \in [1..n -> S] :
                     /\ \A a, b \in 1..n : a # b => o[a] # o[b]
                     /\ \A a \in 1..(n - 1) :
                           MergedRow(L, municipio, o[a]).Ano
                               <= MergedRow(L, municipio, o[a + 1]).Ano}}

Outcome(kind, cards, figs) == [kind |-> kind, cards |-> cards, figs |-> figs]

\* the results update_resumo(municipio, ano) can return, or the exception
\* it ends with
update_resumo(L, municipio, ano) ==
    LET r == get_value(L.receita_long, municipio, ano)
        d == get_value(L.despesa_long, municipio, ano)
        f == get_value(L.fpm_long, municipio, ano)
    IN  IF r.kind # "value" \/ d.kind # "value" \/ f.kind # "value"
        THEN {Outcome("KeyError", << >>, << >>)}
        ELSE IF ano = None
        THEN {Outcome("TypeError", << >>, << >>)}
        ELSE {Outcome("ok",
                      <<Card(r.v), Card(d.v), Card(f.v), Card(Saldo(r.v, d.v))>>,
                      [fig_rd |-> rd, fig_f_big |-> fb,
                       rank_r |-> kr, rank_d |-> kd, rank_f |-> kf,
                       series_r |-> sr, series_d |-> sd, series_f |-> sf]) :
                rd \in fig_rd(L, municipio),
                fb \in series_fig(L, L.fpm_long, municipio),
                kr \in RankingResumo(L.receita_long, ano, municipio),
                kd \in RankingResumo(L.despesa_long, ano, municipio),
                kf \in RankingResumo(L.fpm_long, ano, municipio),
                sr \in series_fig(L, L.receita_long, municipio),
                sd \in series_fig(L, L.despesa_long, municipio),
                sf \in series_fig(L, L.fpm_long, municipio)}

\* update_receita, update_despesa and update_fpm, on their dataset
update_tab(L, df, municipio, ano) ==
    {Outcome(IF rk.kind \in {"bar", "placeholder"} /\ sr.kind \in {"line", "placeholder"}
             THEN "ok" ELSE "KeyError",
             << >>, [ranking |-> rk, series |-> sr]) :
        rk \in ranking_fig(df, ano, municipio, DEFAULT_TOP_N),
        sr \in series_fig(L, df, municipio)}

\* hint_ano(ano_real): the real and the displayed year, or the empty text
hint_ano(ano_real) ==
    IF ano_real = None \/ ano_real = Some(0)
    THEN {Outcome("ok", << >>, [real |-> None, shown |-> None])}
    ELSE {Outcome("ok", << >>, [real |-> ano_real, shown |-> Some(display_year(ano_real[1]))])}

\* update_meta(municipio): the code of the entity, or the dash
update_meta(L, municipio) ==
    LET row == SelRows(L.receita_long.rows, municipio)
    IN  IF municipio = None \/ municipio = Some(Str(<< >>)) \/ row = << >>
        THEN {Outcome("ok", <<DASH>>, [ibge |-> None])}
        ELSE {Outcome("ok", << >>, [ibge |-> Some(row[1].IBGE)])}

\* _update_kv_table(sheet_label, municipio)
update_kv_table(L, municipio) ==
    LET kv == wide_to_kv(L.dfs_kv, municipio, MUNICIPIO)
    IN  {Outcome(IF kv.kind = "frame" THEN "ok" ELSE kv.kind, << >>, [data |-> kv.rows])}

Callbacks ==
    {"update_resumo", "update_receita", "update_despesa", "update_fpm",
     "hint_ano", "update_meta", "update_kv_table"}

\* what callback cb can return for the input values it is called with
Run(L, cb, municipio, ano) ==
    CASE cb = "update_resumo" -> update_resumo(L, municipio, ano)
      [] cb = "update_receita" -> update_tab(L, L.receita_long, municipio, ano)
      [] cb = "update_despesa" -> update_tab(L, L.despesa_long, municipio, ano)
      [] cb = "update_fpm" -> update_tab(L, L.fpm_long, municipio, ano)
      [] cb = "hint_ano" -> hint_ano(ano)
      [] cb = "update_meta" -> update_meta(L, municipio)
      [] OTHER -> update_kv_table(L, municipio)

\* the year dropdown that feeds callback cb, if any
AnoInput(cb) ==
    CASE cb \in {"update_resumo", "hint_ano"} -> "ano_resumo"
      [] cb = "update_receita" -> "ano_receita"
      [] cb = "update_despesa" -> "ano_despesa"
      [] cb = "update_fpm" -> "ano_fpm"
      [] OTHER -> "none"

TakesMunicipio(cb) == cb # "hint_ano"

---------------------------------------------------------------------------
(* Inputs of the dashboard specifications: the workbooks read at start    *)

Financial(years, rows) == [columns |-> <<CODE, NAME>> \o years, rows |-> rows]

\* two municipalities over 2019 and 2021 (2019 is displayed as 2021)
SheetAB ==
    Financial(<<Y(2019), Y(2021)>>,
              <<<<Num(1500001), Str(<<"A">>), Num(100), Num(300)>>,
                <<Num(1500002), Str(<<"B">>), Num(200), NaN>>>>)
\* one municipality
SheetA ==
    Financial(<<Y(2019), Y(2021)>>, <<<<Num(1500001), Str(<<"A">>), Num(40), Num(450)>>>>)
\* a sheet with a cell that is not numeric
SheetDirty ==
    Financial(<<Y(2019)>>,
              <<<<Num(1500001), Str(<<"A">>), Num(10)>>,
                <<Num(1500002), Str(<<"B">>), Str(<<"x">>)>>>>)
\* no municipal row: the state aggregate only
SheetNoRows ==
    Financial(<<Y(2019), Y(2021)>>, <<<<Num(15), Str(<<"P", "a", "r", "a'">>), Num(900), Num(950)>>>>)
\* no year column
SheetNoYears == Financial(<< >>, <<<<Num(1500001), Str(<<"A">>)>>>>)
\* rows without a name
SheetNoNames == Financial(<<Y(2019)>>, <<<<Num(1500001), NaN, Num(100)>>>>)

SheetGeral ==
    [columns |-> <<CODE, INDICADOR, POP>>,
     rows |-> <<<<Num(15), Str(<<"P", "a", "r", "a'">>), Num(1234567)>>,
                <<Num(1500001), Str(<<"A">>), Num(1000)>>>>]

Workbook(r, d, f) == [Receita |-> r, Despesa |-> d, FPM |-> f, Geral |-> SheetGeral]

Workbooks ==
    {Workbook(SheetAB, SheetA, SheetDirty),
     Workbook(SheetA, SheetAB, SheetDirty),
     Workbook(SheetNoRows, SheetA, SheetDirty),
     Workbook(SheetNoYears, SheetA, SheetDirty),
     Workbook(SheetNoNames, SheetA, SheetDirty)}

YearDropdowns == {"ano_resumo", "ano_receita", "ano_despesa", "ano_fpm"}

\* the process started on a workbook and served the page
InitDash ==
    /\ \E wb \in Workbooks : loaded = Load(wb)
    /\ loaded.state = "ready"
    /\ ui = Layout(loaded)
    /\ inflight = {}
    /\ rendered = NoRender
    /\ call = NoPure
    /\ CoreIdle

\* the user picks an option of a year dropdown
SelectAno ==
    /\ \E dd \in YearDropdowns :
          \E i \in 1..Len(ui[dd].options) :
              ui' = [ui EXCEPT ![dd].value = Some(ui[dd].options[i].value)]
    /\ UNCHANGED <<core, call, loaded, inflight, rendered>>

\* the user picks a municipality
SelectMunicipio ==
    /\ \E i \in 1..Len(loaded.MUNICIPIOS) :
          ui' = [ui EXCEPT !.municipio = Some(loaded.MUNICIPIOS[i])]
    /\ UNCHANGED <<core, call, loaded, inflight, rendered>>

\* the input values Dash hands to callback cb
MunicipioFor(cb) == IF TakesMunicipio(cb) THEN ui.municipio ELSE None
AnoFor(cb) == IF AnoInput(cb) = "none" THEN None ELSE ui[AnoInput(cb)].value

\* Dash runs callback cb on the current values of its inputs
Fire(cb) ==
    /\ \E o \in Run(loaded, cb, MunicipioFor(cb), AnoFor(cb)) :
          rendered' = [cb |-> cb, municipio |-> MunicipioFor(cb), ano |-> AnoFor(cb),
                       out |-> o]
    /\ UNCHANGED <<core, call, loaded, ui, inflight>>

FireUpdateResumo == Fire("update_resumo")
FireUpdateReceita == Fire("update_receita")
FireUpdateDespesa == Fire("update_despesa")
FireUpdateFpm == Fire("update_fpm")
FireHintAno == Fire("hint_ano")
FireUpdateMeta == Fire("update_meta")
FireUpdateKvTable == Fire("update_kv_table")

NextDash ==
    \/ SelectAno
    \/ SelectMunicipio
    \/ FireUpdateResumo
    \/ FireUpdateReceita
    \/ FireUpdateDespesa
    \/ FireUpdateFpm
    \/ FireHintAno
    \/ FireUpdateMeta
    \/ FireUpdateKvTable

SpecDash == InitDash /\ [][NextDash]_vars

---------------------------------------------------------------------------
(* The dashboard claims *)

Rendered == rendered.cb # "none"

\* the real years of the loaded revenue dataset
RealYears == {loaded.receita_long.rows[i].Ano : i \in 1..Len(loaded.receita_long.rows)}

\* the text of the year y + 2
Displayed(y) == DigitsOf(y + 2)

\* the ranking figures of what was rendered
RankingFigs ==
    IF rendered.out.kind # "ok" THEN {}
    ELSE IF rendered.cb = "update_resumo"
    THEN {rendered.out.figs.rank_r, rendered.out.figs.rank_d, rendered.out.figs.rank_f}
    ELSE IF rendered.cb \in {"update_receita", "update_despesa", "update_fpm"}
    THEN {rendered.out.figs.ranking}
    ELSE {}

\* the series figures of what was rendered
SeriesFigs ==
    IF rendered.out.kind # "ok" THEN {}
    ELSE IF rendered.cb = "update_resumo"
    THEN {rendered.out.figs.fig_rd, rendered.out.figs.fig_f_big, rendered.out.figs.series_r,
          rendered.out.figs.series_d, rendered.out.figs.series_f}
    ELSE IF rendered.cb \in {"update_receita", "update_despesa", "update_fpm"}
    THEN {rendered.out.figs.series}
    ELSE {}

\* C15: the displayed year is the real year plus 2 and is only ever a
\* label: whatever years were picked in the four dropdowns, each option
\* carries a real year of the loaded dataset as its value and that year
\* plus 2 as its label, the year handed to a callback (and by it to the
\* ranking and the lookup) is a real year of the loaded dataset, the title
\* of a ranking shows that year plus 2, its rows are of that year, and
\* the ticks of a series have the real years as values and each year plus
\* 2 as text.
C15_RealYear ==
    /\ \A dd \in YearDropdowns :
          /\ \A i \in 1..Len(ui[dd].options) :
                /\ ui[dd].options[i].value \in RealYears
                /\ ui[dd].options[i].label = Displayed(ui[dd].options[i].value)
          /\ ui[dd].value # None => ui[dd].value[1] \in RealYears
          /\ RealYears # {} => ui[dd].value # None
    /\ Rendered
         => /\ rendered.ano # None => rendered.ano[1] \in RealYears
            /\ \A f \in RankingFigs :
                  /\ f.ano = rendered.ano
                  /\ f.kind = "bar"
                       => /\ f.title = Some(rendered.ano[1] + 2)
                          /\ \A j \in 1..Len(f.rows) : f.rows[j].Ano = rendered.ano[1]
                  /\ (f.kind = "placeholder" /\ f.title # None)
                       => f.title = Some(rendered.ano[1] + 2)
            /\ \A f \in SeriesFigs :
                  /\ \A i \in 1..Len(f.ticks.tickvals) :
                        /\ f.ticks.tickvals[i] \in RealYears
                        /\ f.ticks.ticktext[i] = Displayed(f.ticks.tickvals[i])
                  /\ \A j \in 1..Len(f.points) : f.points[j].Ano \in RealYears
            /\ (rendered.cb = "hint_ano" /\ rendered.ano # None)
                 => /\ rendered.out.figs.real = rendered.ano
                    /\ rendered.out.figs.shown = Some(rendered.ano[1] + 2)

\* the real year 2019, whose label "2021" reads like the other real year,
\* picked in the revenue tab after another pick, and its ranking titled 2021
C15_Witness ==
    /\ rendered.cb = "update_receita"
    /\ rendered.ano = Some(2019)
    /\ ui.ano_receita.value = Some(2019)
    /\ ui.ano_resumo.value = Some(2019) /\ ui.ano_fpm.value = Some(2021)
    /\ 2021 \in RealYears
    /\ rendered.out.figs.ranking.kind = "bar"
    /\ rendered.out.figs.ranking.title = Some(2021)
    /\ Len(rendered.out.figs.ranking.rows) = 2
    /\ rendered.out.figs.series.ticks.ticktext[1] = <<"2", "0", "2", "1">>

\* the value get_value finds in a dataset for what was rendered, in
\* hundredths: the first record of the entity and year, if it has a value
Found100(df) ==
    LET S == {i \in 1..Len(df.rows) :
                 /\ Some(df.rows[i].Municipio) = rendered.municipio
                 /\ Some(df.rows[i].Ano) = rendered.ano}
        first == CHOOSE i \in S : \A j \in S : i <= j
    IN  IF S = {} \/ df.rows[first].val.t = "nan" THEN None
        ELSE Some(100 * df.rows[first].val.v)

\* C18: in every loaded state, one without years or municipalities
\* included, update_resumo called with an unset year or an unset
\* municipality raises nothing and returns the dash for the four cards
\* together with placeholder rankings; and whenever update_resumo returns,
\* the balance card shows a value only when the revenue and the
\* expenditure were both found, and then revenue minus expenditure.
C18_ResumoUnset ==
    rendered.cb = "update_resumo"
    => /\ (rendered.ano = None \/ rendered.municipio = None)
            => /\ rendered.out.kind = "ok"
               /\ rendered.out.cards = <<DASH, DASH, DASH, DASH>>
               /\ \A f \in RankingFigs : f.kind = "placeholder" /\ f.rows = << >>
       /\ rendered.out.kind = "ok"
            => LET r == Found100(loaded.receita_long)
                   d == Found100(loaded.despesa_long)
               IN  IF r = None \/ d = None THEN rendered.out.cards[4] = DASH
                   ELSE /\ Len(rendered.out.cards[4]) > 3
                        /\ SubSeq(rendered.out.cards[4], 1, 3) = <<"R", "$", " ">>
                        /\ TwoDecimals(SubSeq(rendered.out.cards[4], 4,
                                              Len(rendered.out.cards[4])),
                                       Dec(r[1] - d[1]))

\* the same with a year set: only the municipality may be unset
C18_YearSet == rendered.ano # None => C18_ResumoUnset

\* a loaded state without municipalities, a year set: four dashes and
\* placeholder rankings
C18_YearSet_Witness ==
    /\ rendered.cb = "update_resumo"
    /\ rendered.municipio = None /\ rendered.ano # None
    /\ rendered.out.kind = "ok"
    /\ rendered.out.cards = <<DASH, DASH, DASH, DASH>>
    /\ rendered.out.figs.rank_r.kind = "placeholder"

\* a negative balance
C18_Balance_Witness ==
    /\ rendered.cb = "update_resumo"
    /\ rendered.out.kind = "ok"
    /\ rendered.out.cards[4] = <<"R", "$", " ", "-", "6", "0", ",", "0", "0">>

---------------------------------------------------------------------------
(* The callbacks served by concurrent request handlers                    *)

MaxHandlers == 2

\* mutant: the ranking drops the records without a value from the
\* dataset itself (dropna(..., inplace=True) on the shared frame)
SharedAfter_DropNaInPlace(L, cb, municipio, ano) ==
    IF cb = "update_receita" /\ municipio # None /\ ano # None
    THEN [L EXCEPT !.receita_long.rows = DropNa(@)]
    ELSE L

\* the module-level names as a callback leaves them: no callback assigns
\* one, and every frame, row or figure a query changes (top["_sel"], the
\* popped keys of the row, the layout of a figure) is a copy or a new
\* object (.copy(), boolean indexing, .to_dict(), px.bar)
SharedAfter(L, cb, municipio, ano) == L

\* a handler thread takes up a request for callback cb, with the values
\* the page held when it was sent
BeginRequest ==
    /\ Cardinality(inflight) < MaxHandlers
    /\ \E cb \in Callbacks :
          inflight' = inflight \cup
              {[cb |-> cb, municipio |-> MunicipioFor(cb), ano |-> AnoFor(cb)]}
    /\ inflight' # inflight
    /\ UNCHANGED <<core, call, loaded, ui, rendered>>

\* a handler thread runs its callback and answers
FinishRequest ==
    /\ \E req \in inflight :
          /\ \E o \in Run(loaded, req.cb, req.municipio, req.ano) :
                rendered' = [cb |-> req.cb, municipio |-> req.municipio, ano |-> req.ano,
                             out |-> o]
          /\ loaded' = SharedAfter(loaded, req.cb, req.municipio, req.ano)
          /\ inflight' = inflight \ {req}
    /\ UNCHANGED <<core, call, ui>>

NextServe == SelectMunicipio \/ BeginRequest \/ FinishRequest

SpecServe == InitDash /\ [][NextServe]_vars

C17_SingleIdentifier ==
    (Melted /\ (HasCol(sheet, CODE) \/ HasCol(sheet, NAME)))
    => /\ IsDataset
       /\ \A p \in 1..Len(melted.out.rows) :
             /\ 1500000 <= melted.out.rows[p].IBGE
             /\ melted.out.rows[p].IBGE < 1600000

=============================================================================
